---- MODULE Spec2Model ----
(***************************************************************************)
(* Model of the two tutorial notebooks held in                             *)
(* src/htbab_tutorials/ch2-scalars.ipynb:                                  *)
(*   notebook 1 (lines 1-247)   "Representing a scalar"                    *)
(*   notebook 2 (lines 249-496) "Training an Autoencoder With TensorNodes" *)
(* Each notebook runs its cells top to bottom in its own kernel; the two   *)
(* kernels are independent and interleave freely.  Calls into the external *)
(* libraries (nengo, nengo_dl, tensorflow) are the environment: a call     *)
(* either returns (sim.loss returns some loss value) or raises.            *)
(***************************************************************************)
EXTENDS Integers, Sequences, FiniteSets, TLC

\* ---------------------------------------------------------------- bounds
\* loss values returned by sim.loss are drawn from 0..MaxLoss
MaxLoss == 2

\* ------------------------------------------------------ program constants
n_hidden_1 == 128
n_hidden_2 == 36
n_input == 784
n_examples == 100
repetitions == 5

\* exceptions the external libraries may raise
Exceptions == {"ValidationError", "SimulationError"}

\* the arrays of the MNIST data set (identified by name)
mnist == [train |-> [images |-> "mnist.train.images", labels |-> "mnist.train.labels"],
          test  |-> [images |-> "mnist.test.images",  labels |-> "mnist.test.labels"]]

VARIABLES
  pc1,      \* notebook 1: index of the next statement of Program1
  sims1,    \* notebook 1: state of every simulator constructed so far
  sim1,     \* notebook 1: the simulator the name `sim` is bound to (0: unbound)
  err1,     \* notebook 1: exception that ended the run, or "none"
  pc2,      \* notebook 2: position in the cells
  net,      \* notebook 2: declared sizes of the nodes of `net`
  feeds,    \* notebook 2: train_inputs, train_targets, test_inputs, test_targets
  enc,      \* notebook 2: fields of the Encoder instance set by pre_build
  dec,      \* notebook 2: fields of the Decoder instance set by pre_build
  layers,   \* notebook 2: widths of the layers of the built graph, input first
  sims2,    \* notebook 2: state of every simulator constructed so far
  e,        \* notebook 2: loop variable of the training loop
  losses,   \* notebook 2: the list `losses`
  trained,  \* notebook 2: number of training passes applied to the parameters
  steps,    \* notebook 2: sim.data, one entry per recorded step
  calls,    \* notebook 2: sim.loss / sim.step / sim.train calls made, in order
  failed2,  \* notebook 2: the call that raised, and the exception it raised
  error2,   \* notebook 2: exception that left the cell, or "none"
  plotted,  \* notebook 2: number of plot columns drawn
  uses      \* both: every operation made on a simulator object

vars == <<pc1, sims1, sim1, err1, pc2, net, feeds, enc, dec, layers, sims2, e,
          losses, trained, steps, calls, failed2, error2, plotted, uses>>

vars1 == <<pc1, sims1, sim1, err1>>
vars2 == <<pc2, net, feeds, enc, dec, layers, sims2, e, losses, trained, steps,
           calls, failed2, error2, plotted>>

\* ------------------------------------------------------- simulator objects
\* Simulator.__enter__ / __exit__ of the with statement
Open(s) == "open"

Close(s) == "closed"

\* the with statement leaves its block: the open simulators are closed
ExitAll(ss) == [i \in DOMAIN ss |-> IF ss[i] = "open" THEN Close(ss[i]) ELSE ss[i]]

NumOpen(ss) == Cardinality({i \in DOMAIN ss : ss[i] = "open"})

Use(nb, ss, s, op) == [nb |-> nb, sim |-> s, op |-> op,
                       open |-> (s \in DOMAIN ss /\ ss[s] = "open")]

\* ============================================================ notebook 1
\* variant: sim.run(1) placed after the with-block of line 147
Program1Late ==
  << [k |-> "enter", op |-> "Simulator",     line |-> 147],
     [k |-> "exit",  op |-> "with",          line |-> 148],
     [k |-> "op",    op |-> "run",           line |-> 148],
     [k |-> "op",    op |-> "tuning_curves", line |-> 161],
     [k |-> "enter", op |-> "Simulator",     line |-> 184],
     [k |-> "op",    op |-> "tuning_curves", line |-> 185],
     [k |-> "exit",  op |-> "with",          line |-> 185],
     [k |-> "enter", op |-> "Simulator",     line |-> 207],
     [k |-> "op",    op |-> "tuning_curves", line |-> 208],
     [k |-> "exit",  op |-> "with",          line |-> 208],
     [k |-> "op",    op |-> "tuning_curves", line |-> 209] >>

\* The statements of notebook 1 that construct or use a simulator.
Program1 ==
  << [k |-> "enter", op |-> "Simulator",     line |-> 147],
     [k |-> "op",    op |-> "run",           line |-> 148],
     [k |-> "exit",  op |-> "with",          line |-> 148],
     [k |-> "op",    op |-> "tuning_curves", line |-> 161],
     [k |-> "enter", op |-> "Simulator",     line |-> 184],
     [k |-> "op",    op |-> "tuning_curves", line |-> 185],
     [k |-> "exit",  op |-> "with",          line |-> 185],
     [k |-> "enter", op |-> "Simulator",     line |-> 207],
     [k |-> "op",    op |-> "tuning_curves", line |-> 208],
     [k |-> "exit",  op |-> "with",          line |-> 208],
     [k |-> "op",    op |-> "tuning_curves", line |-> 209] >>

Done1 == Len(Program1) + 1

\* number of with-blocks the statement at position p lies in
InWith1(p) ==
  Cardinality({i \in 1..(p-1) : i <= Len(Program1) /\ Program1[i].k = "enter"})
  - Cardinality({i \in 1..(p-1) : i <= Len(Program1) /\ Program1[i].k = "exit"})

\* `with nengo.Simulator(model) as sim:` constructs a simulator and binds sim
Nb1Enter ==
  /\ err1 = "none" /\ pc1 <= Len(Program1) /\ Program1[pc1].k = "enter"
  /\ sims1' = Append(sims1, Open("new"))
  /\ sim1' = Len(sims1) + 1
  /\ pc1' = pc1 + 1
  /\ UNCHANGED <<err1, uses>> /\ UNCHANGED vars2

\* sim.run(1) or tuning_curves(x, sim) returns
Nb1Op ==
  /\ err1 = "none" /\ pc1 <= Len(Program1) /\ Program1[pc1].k = "op"
  /\ uses' = uses \cup {Use(1, sims1, sim1, Program1[pc1].op)}
  /\ pc1' = pc1 + 1
  /\ UNCHANGED <<sims1, sim1, err1>> /\ UNCHANGED vars2

\* the with-block is left normally
Nb1Exit ==
  /\ err1 = "none" /\ pc1 <= Len(Program1) /\ Program1[pc1].k = "exit"
  /\ sims1' = ExitAll(sims1)
  /\ pc1' = pc1 + 1
  /\ UNCHANGED <<sim1, err1, uses>> /\ UNCHANGED vars2

\* a library call raises: nothing catches it, the with-block (if any) is
\* left and the run of the notebook stops
Nb1Raise ==
  /\ err1 = "none" /\ pc1 <= Len(Program1) /\ Program1[pc1].k \in {"enter", "op"}
  /\ \E x \in Exceptions : err1' = x
  /\ uses' = IF Program1[pc1].k = "op"
             THEN uses \cup {Use(1, sims1, sim1, Program1[pc1].op)} ELSE uses
  /\ sims1' = ExitAll(sims1)
  /\ UNCHANGED <<pc1, sim1>> /\ UNCHANGED vars2

\* ============================================================ notebook 2
\* tf.contrib.layers.fully_connected(x, num_outputs) on a tensor of shape x
fully_connected(x, num_outputs) == <<x[1], num_outputs>>

\* Encoder.pre_build / Decoder.pre_build
pre_build(shape_in, shape_out) ==
  [n_mini |-> shape_in[1], size_in |-> shape_in[2], size_out |-> shape_out[2]]

\* Encoder.__call__: the successive values of `dense`, the last is returned
Encoder_call(self, x) ==
  LET dense1 == fully_connected(x, n_hidden_1)
      dense2 == fully_connected(dense1, n_hidden_2)
  IN  <<dense1, dense2>>

\* variant: the Decoder ends in n_hidden_2 like the Encoder
Decoder_call_narrow(self, x) ==
  LET dense1 == fully_connected(x, n_hidden_1)
      dense2 == fully_connected(dense1, n_hidden_2)
  IN  <<dense1, dense2>>

\* Decoder.__call__
Decoder_call(self, x) ==
  LET dense1 == fully_connected(x, n_hidden_1)
      dense2 == fully_connected(dense1, self.size_out)
  IN  <<dense1, dense2>>

Returned(ds) == ds[Len(ds)]

\* shapes the plot cell reshapes the probed rows to
ImageShape == <<28, 28>>
CodeShape == <<6, 6>>

\* the nodes declared in `with nengo.Network() as net:`
Network ==
  [inp       |-> [size_out |-> ImageShape[1] * ImageShape[2]],
   tf_encode |-> [size_in |-> n_input,    size_out |-> n_hidden_2],
   tf_decode |-> [size_in |-> n_hidden_2, size_out |-> n_input]]

NoNetwork ==
  [inp       |-> [size_out |-> 0],
   tf_encode |-> [size_in |-> 0, size_out |-> 0],
   tf_decode |-> [size_in |-> 0, size_out |-> 0]]

NoSelf == [n_mini |-> 0, size_in |-> 0, size_out |-> 0]

\* variant: the one-hot labels as targets
DataLabels ==
  [train_inputs  |-> mnist.train.images,
   train_targets |-> mnist.train.labels,
   test_inputs   |-> mnist.test.images,
   test_targets  |-> mnist.test.labels]

\* train_inputs, train_targets, test_inputs, test_targets; the targets are
\* read back from the input mappings
Data ==
  LET train_inputs == [inp |-> mnist.train.images]
      train_targets == [decode_probe |-> train_inputs.inp]
      test_inputs == [inp |-> mnist.test.images]
      test_targets == [decode_probe |-> test_inputs.inp]
  IN  [train_inputs  |-> train_inputs.inp,
       train_targets |-> train_targets.decode_probe,
       test_inputs   |-> test_inputs.inp,
       test_targets  |-> test_targets.decode_probe]

NoData == [train_inputs |-> "unset", train_targets |-> "unset",
           test_inputs |-> "unset", test_targets |-> "unset"]

NoCall == [op |-> "none", e |-> 0, exc |-> "none"]


\* ----------------------------------------------- control flow of the loop
\* variant: body loss; train; step
LoopNextTrainFirst(p, ee) ==
  CASE p = "with"  -> [pc |-> IF 0 < repetitions THEN "loss" ELSE "final_step", e |-> 0]
    [] p = "loss"  -> [pc |-> "train", e |-> ee]
    [] p = "train" -> [pc |-> "step", e |-> ee]
    [] p = "step"  -> IF ee + 1 < repetitions THEN [pc |-> "loss", e |-> ee + 1]
                                               ELSE [pc |-> "final_step", e |-> ee]
    [] OTHER       -> [pc |-> "exit", e |-> ee]

\* variant: range(repetitions - 1)
LoopNextShort(p, ee) ==
  CASE p = "with"  -> [pc |-> IF 0 < repetitions THEN "loss" ELSE "final_step", e |-> 0]
    [] p = "loss"  -> [pc |-> "step", e |-> ee]
    [] p = "step"  -> [pc |-> "train", e |-> ee]
    [] p = "train" -> IF ee + 1 < repetitions - 1 THEN [pc |-> "loss", e |-> ee + 1]
                                                   ELSE [pc |-> "final_step", e |-> ee]
    [] OTHER       -> [pc |-> "exit", e |-> ee]

\* `for e in range(repetitions)` with its body loss; step; train, followed
\* by the step after the loop and the end of the with-block
LoopNext(p, ee) ==
  CASE p = "with"  -> [pc |-> IF 0 < repetitions THEN "loss" ELSE "final_step", e |-> 0]
    [] p = "loss"  -> [pc |-> "step", e |-> ee]
    [] p = "step"  -> [pc |-> "train", e |-> ee]
    [] p = "train" -> IF ee + 1 < repetitions THEN [pc |-> "loss", e |-> ee + 1]
                                               ELSE [pc |-> "final_step", e |-> ee]
    [] OTHER       -> [pc |-> "exit", e |-> ee]

\* variant: `try: ... except: pass` around each call
UnwindSwallow(p, ee, x) ==
  [pc |-> LoopNext(p, ee).pc, e |-> LoopNext(p, ee).e, error |-> "none", exits |-> FALSE]

\* An exception raised inside the with-block: no try/except surrounds the
\* calls, so it ends the loop, leaves the with-block and leaves the cell
Unwind(p, ee, x) == [pc |-> "raised", e |-> ee, error |-> x, exits |-> TRUE]

\* variant: losses.insert(0, ...)
RecordLossFront(l, v) == <<v>> \o l

\* losses.append(...)
RecordLoss(l, v) == Append(l, v)

\* arguments of sim.loss, sim.step and sim.train
LossArgs(f) == [inputs |-> f.test_inputs, targets |-> f.test_targets]

StepArgs(f) == [inputs |-> f.test_inputs, targets |-> "none"]

TrainArgs(f) == [inputs |-> f.train_inputs, targets |-> f.train_targets]

Call(op, args, ok, ret) ==
  [op |-> op, inputs |-> args.inputs, targets |-> args.targets,
   ok |-> ok, ret |-> ret, trained |-> trained, e |-> e]

sim2 == Len(sims2)

\* one recorded step: the rows the three probes add to sim.data
Recorded ==
  [trained |-> trained, input |-> layers[1], encode |-> layers[3],
   decode |-> layers[Len(layers)]]

\* np.reshape(row, shape) raises unless the sizes agree
ReshapeOk(width, shape) == shape[1] * shape[2] = width

ColumnOk(i) ==
  /\ i + 1 <= Len(steps)
  /\ ReshapeOk(steps[i + 1].input, ImageShape)
  /\ ReshapeOk(steps[i + 1].encode, CodeShape)
  /\ ReshapeOk(steps[i + 1].decode, ImageShape)

\* ------------------------------------------------------------------ cells
\* cell "Building the encoder": classes, network, nodes, connections, probes
NetCell ==
  /\ pc2 = "net"
  /\ net' = Network
  /\ IF /\ Network.inp.size_out = Network.tf_encode.size_in
        /\ Network.tf_encode.size_out = Network.tf_decode.size_in
     THEN pc2' = "data" /\ error2' = error2
     ELSE pc2' = "raised" /\ error2' = "ValidationError"
  /\ UNCHANGED <<feeds, enc, dec, layers, sims2, e, losses, trained, steps,
                 calls, failed2, plotted, uses>>
  /\ UNCHANGED vars1

\* cell train_inputs / train_targets / test_inputs / test_targets
DataCell ==
  /\ pc2 = "data"
  /\ feeds' = Data
  /\ pc2' = "with"
  /\ UNCHANGED <<net, enc, dec, layers, sims2, e, losses, trained, steps,
                 calls, failed2, error2, plotted, uses>>
  /\ UNCHANGED vars1

\* `with nengo_dl.Simulator(net, minibatch_size=n_examples, ...) as sim:`
\* builds the graph (pre_build and __call__ of both nodes, whose results
\* are validated against the declared sizes) and enters the block
Enter2 ==
  /\ pc2 = "with"
  /\ LET x_enc == <<n_examples, net.tf_encode.size_in>>
         x_dec == <<n_examples, net.tf_decode.size_in>>
         self_enc == pre_build(x_enc, <<n_examples, net.tf_encode.size_out>>)
         self_dec == pre_build(x_dec, <<n_examples, net.tf_decode.size_out>>)
         out_enc == Encoder_call(self_enc, x_enc)
         out_dec == Decoder_call(self_dec, x_dec)
         all == <<x_enc>> \o out_enc \o out_dec
     IN  /\ enc' = self_enc
         /\ dec' = self_dec
         /\ layers' = [i \in 1..Len(all) |-> all[i][2]]
         /\ IF /\ Returned(out_enc) = <<n_examples, net.tf_encode.size_out>>
               /\ Returned(out_dec) = <<n_examples, net.tf_decode.size_out>>
            THEN \/ /\ sims2' = Append(sims2, Open("new"))
                    /\ pc2' = LoopNext("with", e).pc
                    /\ e' = LoopNext("with", e).e
                    /\ error2' = error2
                 \/ /\ \E x \in Exceptions : error2' = x
                    /\ pc2' = "raised"
                    /\ UNCHANGED <<sims2, e>>
            ELSE /\ error2' = "ValidationError"
                 /\ pc2' = "raised"
                 /\ UNCHANGED <<sims2, e>>
  /\ UNCHANGED <<net, feeds, losses, trained, steps, calls, failed2, plotted, uses>>
  /\ UNCHANGED vars1

\* losses.append(sim.loss(test_inputs, test_targets, 'mse'))
Loss ==
  /\ pc2 = "loss"
  /\ \E v \in 0..MaxLoss :
       /\ calls' = Append(calls, Call("loss", LossArgs(feeds), TRUE, v))
       /\ losses' = RecordLoss(losses, v)
  /\ uses' = uses \cup {Use(2, sims2, sim2, "loss")}
  /\ pc2' = LoopNext(pc2, e).pc
  /\ e' = LoopNext(pc2, e).e
  /\ UNCHANGED <<net, feeds, enc, dec, layers, sims2, trained, steps, failed2,
                 error2, plotted>>
  /\ UNCHANGED vars1

\* sim.step(input_feeds={inp: test_inputs[inp][:n_examples]}), in the loop
\* and after it
Step ==
  /\ pc2 \in {"step", "final_step"}
  /\ calls' = Append(calls, Call("step", StepArgs(feeds), TRUE, 0))
  /\ steps' = Append(steps, Recorded)
  /\ uses' = uses \cup {Use(2, sims2, sim2, "step")}
  /\ pc2' = LoopNext(pc2, e).pc
  /\ e' = LoopNext(pc2, e).e
  /\ UNCHANGED <<net, feeds, enc, dec, layers, sims2, losses, trained, failed2,
                 error2, plotted>>
  /\ UNCHANGED vars1

\* sim.train(train_inputs, train_targets, optimizer): one pass
Train ==
  /\ pc2 = "train"
  /\ calls' = Append(calls, Call("train", TrainArgs(feeds), TRUE, 0))
  /\ trained' = trained + 1
  /\ uses' = uses \cup {Use(2, sims2, sim2, "train")}
  /\ pc2' = LoopNext(pc2, e).pc
  /\ e' = LoopNext(pc2, e).e
  /\ UNCHANGED <<net, feeds, enc, dec, layers, sims2, losses, steps, failed2,
                 error2, plotted>>
  /\ UNCHANGED vars1

\* sim.loss, sim.step or sim.train raises
Raise2 ==
  /\ pc2 \in {"loss", "step", "train", "final_step"}
  /\ LET op == IF pc2 = "final_step" THEN "step" ELSE pc2
         args == CASE op = "loss" -> LossArgs(feeds)
                   [] op = "step" -> StepArgs(feeds)
                   [] OTHER       -> TrainArgs(feeds)
     IN  \E x \in Exceptions :
           /\ calls' = Append(calls, Call(op, args, FALSE, 0))
           /\ uses' = uses \cup {Use(2, sims2, sim2, op)}
           /\ failed2' = [op |-> op, e |-> e, exc |-> x]
           /\ pc2' = Unwind(pc2, e, x).pc
           /\ e' = Unwind(pc2, e, x).e
           /\ error2' = Unwind(pc2, e, x).error
           /\ sims2' = IF Unwind(pc2, e, x).exits THEN ExitAll(sims2) ELSE sims2
  /\ UNCHANGED <<net, feeds, enc, dec, layers, losses, trained, steps, plotted>>
  /\ UNCHANGED vars1

\* the with-block is left normally
Exit2 ==
  /\ pc2 = "exit"
  /\ sims2' = ExitAll(sims2)
  /\ pc2' = "plot"
  /\ UNCHANGED <<net, feeds, enc, dec, layers, e, losses, trained, steps, calls,
                 failed2, error2, plotted, uses>>
  /\ UNCHANGED vars1

\* plot cell: columns 0..repetitions of sim.data, reshaped
Plot ==
  /\ pc2 = "plot"
  /\ uses' = uses \cup {Use(2, sims2, sim2, "data")}
  /\ LET bad == {i \in 0..repetitions : ~ColumnOk(i)}
     IN  IF bad = {}
         THEN /\ plotted' = repetitions + 1
              /\ pc2' = "done"
              /\ error2' = error2
         ELSE LET first == CHOOSE i \in bad : \A j \in bad : i <= j
              IN  /\ plotted' = first
                  /\ pc2' = "raised"
                  /\ error2' = IF first + 1 <= Len(steps) THEN "ValueError"
                                                         ELSE "IndexError"
  /\ UNCHANGED <<net, feeds, enc, dec, layers, sims2, e, losses, trained, steps,
                 calls, failed2>>
  /\ UNCHANGED vars1

\* ------------------------------------------------------------------ system
Init ==
  /\ pc1 = 1 /\ sims1 = <<>> /\ sim1 = 0 /\ err1 = "none"
  /\ pc2 = "net" /\ net = NoNetwork /\ feeds = NoData
  /\ enc = NoSelf /\ dec = NoSelf /\ layers = <<>>
  /\ sims2 = <<>> /\ e = 0 /\ losses = <<>> /\ trained = 0
  /\ steps = <<>> /\ calls = <<>> /\ failed2 = NoCall /\ error2 = "none"
  /\ plotted = 0 /\ uses = {}

Next ==
  \/ Nb1Enter
  \/ Nb1Op
  \/ Nb1Exit
  \/ Nb1Raise
  \/ NetCell
  \/ DataCell
  \/ Enter2
  \/ Loss
  \/ Step
  \/ Train
  \/ Raise2
  \/ Exit2
  \/ Plot

Spec == Init /\ [][Next]_vars

TypeOK ==
  /\ pc1 \in 1..Done1
  /\ pc2 \in {"net", "data", "with", "loss", "step", "train", "final_step",
              "exit", "plot", "done", "raised"}
  /\ e \in 0..repetitions
  /\ trained \in 0..repetitions
  /\ \A i \in DOMAIN losses : losses[i] \in 0..MaxLoss


\* ------------------------------------------------------------ vocabulary
InLoop2 == pc2 \in {"loss", "step", "train", "final_step", "exit"}

LoopEnded == pc2 \in {"final_step", "exit", "plot", "done"}

CellEnded == pc2 \in {"plot", "done"}

IndicesOf(op) == {j \in DOMAIN calls : calls[j].op = op}

\* the values returned by the sim.loss calls that returned, in call order
RECURSIVE Measured(_)
Measured(cs) ==
  IF cs = <<>> THEN <<>>
  ELSE LET c == cs[Len(cs)]
           before == Measured(SubSeq(cs, 1, Len(cs) - 1))
       IN  IF c.op = "loss" /\ c.ok THEN Append(before, c.ret) ELSE before

BodyOrder == <<"loss", "step", "train">>

\* ================================================================= claims

C2_OneTrainPerStep ==
  /\ \A i \in DOMAIN steps : steps[i].trained = i - 1
  /\ \A a, b \in IndicesOf("step") :
       (a < b /\ \A m \in IndicesOf("step") : ~(a < m /\ m < b))
         => Cardinality({j \in IndicesOf("train") : a < j /\ j < b}) = 1
  /\ \A j \in IndicesOf("train") : \E i \in IndicesOf("step") : i < j
  /\ CellEnded =>
       /\ Len(steps) = repetitions + 1
       /\ calls[Len(calls)].op = "step"
       /\ steps[Len(steps)].trained = repetitions
       /\ Cardinality(IndicesOf("train")) = repetitions

C2_Witness ==
  /\ pc2 = "plot"
  /\ Len(steps) = repetitions + 1
  /\ steps[repetitions + 1].trained = repetitions

\* C3: when sim.loss, sim.step or sim.train raises in iteration k, the same
\* exception leaves the cell, the with-block is exited (the simulator is
\* closed), `losses` keeps exactly the entries appended before the failure,
\* and no loss, step or train call is made afterwards.
C3_FailurePropagates ==
  /\ [](failed2.op # "none" =>
          /\ pc2 = "raised"
          /\ error2 = failed2.exc
          /\ sims2 # <<>> /\ NumOpen(sims2) = 0
          /\ Len(losses) = failed2.e + (IF failed2.op = "loss" THEN 0 ELSE 1)
          /\ calls # <<>>
          /\ ~calls[Len(calls)].ok
          /\ calls[Len(calls)].op = failed2.op)
  /\ [][failed2'.op # "none" =>
          /\ losses' = losses /\ steps' = steps /\ trained' = trained
          /\ (failed2.op # "none" => calls' = calls)]_vars

C3_Witness ==
  /\ failed2.op = "train" /\ failed2.e = 2
  /\ pc2 = "raised" /\ Len(losses) = 3 /\ NumOpen(sims2) = 0

\* C4: in the training and in the test mapping the target of decode_probe is
\* the array given as input of inp; sim.train is called only with the
\* training pair and sim.loss only with the test pair.
C4_TargetsAreInputs ==
  /\ pc2 \notin {"net", "data"} /\ feeds # NoData =>
       /\ feeds.train_targets = feeds.train_inputs
       /\ feeds.test_targets = feeds.test_inputs
       /\ feeds.train_inputs = mnist.train.images
       /\ feeds.test_inputs = mnist.test.images
  /\ \A j \in IndicesOf("train") :
       /\ calls[j].inputs = mnist.train.images
       /\ calls[j].targets = calls[j].inputs
  /\ \A j \in IndicesOf("loss") :
       /\ calls[j].inputs = mnist.test.images
       /\ calls[j].targets = calls[j].inputs

C4_Witness ==
  /\ Cardinality(IndicesOf("train")) = repetitions
  /\ Cardinality(IndicesOf("loss")) = repetitions
  /\ feeds.train_targets = mnist.train.images

\* C5: the built graph is the mirrored chain 784 -> 128 -> 36 -> 128 -> 784;
\* the width Encoder.__call__ returns is the size_out declared for its node
\* (36) and the size_in declared for the Decoder's node; the width
\* Decoder.__call__ returns is its declared size_out (784) and the input
\* width n_input; the plotted reshapes fit these widths.
C5_MirroredChain ==
  /\ layers # <<>> =>
       /\ layers = <<784, 128, 36, 128, 784>>
       /\ \A i \in DOMAIN layers : layers[i] = layers[Len(layers) + 1 - i]
       /\ layers[3] = net.tf_encode.size_out
       /\ layers[3] = enc.size_out
       /\ layers[3] = net.tf_decode.size_in
       /\ layers[3] = dec.size_in
       /\ layers[5] = net.tf_decode.size_out
       /\ layers[5] = dec.size_out
       /\ layers[5] = n_input
       /\ layers[1] = n_input
       /\ ReshapeOk(layers[1], ImageShape)
       /\ ReshapeOk(layers[3], CodeShape)
       /\ ReshapeOk(layers[5], ImageShape)
  /\ error2 \notin {"ValueError", "IndexError"}
  /\ pc2 = "done" => plotted = repetitions + 1

C5_Witness ==
  /\ pc2 = "done" /\ plotted = repetitions + 1
  /\ Len(layers) = 5 /\ dec.size_out = 784 /\ enc.size_out = 36

\* C6: in every iteration sim.loss runs before sim.step and sim.step before
\* sim.train; losses[k] (k = 0..repetitions-1) is measured after exactly k
\* training passes, the first on the untrained network; when the loop ends
\* `losses` has exactly `repetitions` entries and sim.train has been called
\* exactly `repetitions` times.
C6_LossStages ==
  /\ \A j \in DOMAIN calls :
       j <= 3 * repetitions => calls[j].op = BodyOrder[((j - 1) % 3) + 1]
  /\ \A k \in DOMAIN losses :
       /\ 3 * (k - 1) + 1 \in DOMAIN calls
       /\ calls[3 * (k - 1) + 1].trained = k - 1
       /\ calls[3 * (k - 1) + 1].ret = losses[k]
  /\ LoopEnded =>
       /\ Len(losses) = repetitions
       /\ Cardinality(IndicesOf("train")) = repetitions
       /\ trained = repetitions

C6_Witness ==
  /\ pc2 = "final_step" /\ Len(losses) = repetitions
  /\ calls[1].op = "loss" /\ calls[1].trained = 0

\* the parts of C7 that hold: at most one simulator is open in a notebook,
\* and none is open outside a with-block
OneOpenInsideWith ==
  /\ NumOpen(sims1) <= 1 /\ NumOpen(sims2) <= 1
  /\ (InWith1(pc1) = 0 \/ err1 # "none") => NumOpen(sims1) = 0
  /\ ~InLoop2 => NumOpen(sims2) = 0

\* C7 (as stated): at most one simulator is open at any time, every opened
\* simulator is closed when its with-block is left, and no operation on a
\* simulator happens after its with-block has exited.
C7_OnlyInsideWith ==
  /\ OneOpenInsideWith
  /\ \A u \in uses : u.open

\* C7 (amended): at most one simulator is open at any time, every opened
\* simulator is closed when its with-block is left, and no run, step, loss
\* or train happens after the simulator's with-block has exited; only
\* tuning_curves(x, sim) and reads of sim.data happen on a closed simulator.
C7_RunsInsideWith ==
  /\ OneOpenInsideWith
  /\ \A u \in uses : u.op \in {"run", "step", "loss", "train"} => u.open
  /\ \A u \in uses : ~u.open => u.op \in {"tuning_curves", "data"}

C7_Witness ==
  /\ \E u \in uses : u.nb = 1 /\ u.op = "tuning_curves" /\ ~u.open
  /\ \E u \in uses : u.nb = 1 /\ u.op = "run" /\ u.open
  /\ \E u \in uses : u.nb = 2 /\ u.op = "data" /\ ~u.open
  /\ \E u \in uses : u.nb = 2 /\ u.op = "train" /\ u.open

====
